---- MODULE Spec2Model ----
(***************************************************************************)
(* Thai customs ED01 demo: the weight allocation of weight_allocation.py   *)
(* and its callers in app.py (apply_weight_logic, build_payload_strict)    *)
(* and thai_widget.py (the reconciliation difference).                     *)
(*                                                                         *)
(* Numbers.  The code computes in binary floating point and rounds to 3    *)
(* decimals.  The model computes in exact rationals:                       *)
(*   - an input weight (total_weight, gross_weight_kg) is an integer       *)
(*     number of 0.0001 kg, so that weights finer than the rounding        *)
(*     precision exist;                                                    *)
(*   - a rounded weight is an integer number of 0.001 kg;                  *)
(*   - a raw share is a fraction num/den of 0.0001 kg.                     *)
(* Python's round(x, 3) rounds the binary value of x.  When the exact      *)
(* value is not half-way between two multiples of 0.001 the result is the  *)
(* nearest multiple.  When it is half-way, the representation error of the *)
(* computed float decides the direction (round((0.0005), 3) = 0.001 but    *)
(* round(2.675, 2) = 2.67), so the model takes both directions as possible *)
(* outcomes; two equal floats round the same way.                          *)
(***************************************************************************)
EXTENDS Integers, Sequences, FiniteSets, TLC

\* ------------------------------------------------------------------ bounds
MaxItems == 3      \* longest item list of the general input family
MaxQty == 3        \* largest quantity of the general input family
MaxLines == 6      \* longest item list of the many-small-lines family
MaxMalformed == 2  \* longest item list of the malformed-field family
MaxWeighed == 2    \* longest item list of the per-line-weight family
MaxSelected == 2   \* most demo labels selected at once

\* --------------------------------------------------------- field values
\* A dict field as the code reads it with item.get(name, 0): a number, a
\* missing key, None, the empty string, or a non-numeric string.
Num(x) == [k |-> "num", v |-> x]
Missing == [k |-> "missing", v |-> 0]
Null == [k |-> "null", v |-> 0]
Empty == [k |-> "empty", v |-> 0]
Text == [k |-> "text", v |-> 0]

\* float(item.get(name, 0) or 0): a missing key reads the default 0, a falsy
\* value (None, "", 0) is replaced by 0, a number converts to itself and a
\* non-numeric string raises ValueError.
ToFloatRaises(f) == f.k = "text"
ToFloat(f) == IF f.k = "num" THEN f.v ELSE 0

NoWeight == [has |-> FALSE, w |-> 0]
Weight(w) == [has |-> TRUE, w |-> w]

Max(a, b) == IF a >= b THEN a ELSE b

RECURSIVE SumSeq(_)
SumSeq(s) == IF s = <<>> THEN 0 ELSE s[1] + SumSeq(Tail(s))

\* ------------------------------------------------------------- rounding
\* round(num/den) to an integer, den > 0: the nearest integer, and both
\* neighbours when num/den is exactly half-way.
RoundQ(num, den) ==
  LET f == num \div den
      r == num % den
  IN  IF 2 * r < den THEN {f}
      ELSE IF 2 * r > den THEN {f + 1}
      ELSE {f, f + 1}

\* round(x, 3) of a float that holds x exactly (x in 0.0001 kg, result in
\* 0.001 kg): correctly rounded, half to even.
Round3(x) ==
  LET f == x \div 10
      r == x % 10
  IN  IF r < 5 THEN f
      ELSE IF r > 5 THEN f + 1
      ELSE IF f % 2 = 0 THEN f ELSE f + 1

\* Variant of FirstMax: the last index that holds the largest element.
FirstMaxLast(s) ==
  CHOOSE i \in 1..Len(s) :
    /\ \A j \in 1..Len(s) : s[j] <= s[i]
    /\ \A j \in (i + 1)..Len(s) : s[j] < s[i]

\* max(range(len(rounded)), key=lambda i: rounded[i]): the first index that
\* holds the largest element.
FirstMax(s) ==
  CHOOSE i \in 1..Len(s) :
    /\ \A j \in 1..Len(s) : s[j] <= s[i]
    /\ \A j \in 1..(i - 1) : s[j] < s[i]

\* ----------------------------------------- weight_allocation.allocate_weights
\* Lines 25-29: the sanitised quantity and unit price of one item.
\* Variant of Qty: a negative quantity is kept.
QtyUnclamped(it) == ToFloat(it.quantity)

Qty(it) == Max(ToFloat(it.quantity), 0)
Price(it) == Max(ToFloat(it.unit_price), 0)

\* Lines 24-32: the loop converts quantity then unit_price of every item; the
\* first non-numeric string raises ValueError before anything is written.
SanitiseRaises(its) ==
  \E i \in 1..Len(its) :
    ToFloatRaises(its[i].quantity) \/ ToFloatRaises(its[i].unit_price)

\* Variant of Values: the quantity alone.
ValuesQuantityOnly(its) == [i \in 1..Len(its) |-> Qty(its[i])]

\* Variant of Values: quantity plus unit price.
ValuesSum(its) == [i \in 1..Len(its) |-> Qty(its[i]) + Price(its[i])]

Quantities(its) == [i \in 1..Len(its) |-> Qty(its[i])]
Values(its) == [i \in 1..Len(its) |-> Qty(its[i]) * Price(its[i])]

\* Variant of Mode: no quantity fallback, zero value splits evenly.
ModeNoQuantity(its) ==
  IF SumSeq(Values(its)) > 0 THEN "value" ELSE "equal"

\* Lines 37-45: which branch computes the raw weights.
Mode(its) ==
  IF SumSeq(Values(its)) > 0 THEN "value"
  ELSE IF SumSeq(Quantities(its)) <= 0 THEN "equal"
  ELSE "quantity"

\* Lines 37-45: raw weight i is RawNum[i] / RawDen, in 0.0001 kg.
RawNum(its, T) ==
  IF Mode(its) = "value" THEN [i \in 1..Len(its) |-> Values(its)[i] * T]
  ELSE IF Mode(its) = "equal" THEN [i \in 1..Len(its) |-> T]
  ELSE [i \in 1..Len(its) |-> Quantities(its)[i] * T]

\* Variant of RawDen: the even split is not divided by the item count.
RawDenUndivided(its) ==
  IF Mode(its) = "value" THEN SumSeq(Values(its))
  ELSE IF Mode(its) = "equal" THEN 1
  ELSE SumSeq(Quantities(its))

RawDen(its) ==
  IF Mode(its) = "value" THEN SumSeq(Values(its))
  ELSE IF Mode(its) = "equal" THEN Len(its)
  ELSE SumSeq(Quantities(its))

\* Line 48: every raw weight rounded to 0.001 kg; the first k elements.
\* Equal raw weights are equal floats and round alike.
RECURSIVE RoundAll(_, _, _)
RoundAll(num, den, k) ==
  IF k = 0 THEN {<<>>}
  ELSE { Append(pc[1], pc[2]) :
           pc \in { qc \in RoundAll(num, den, k - 1) \X RoundQ(num[k], 10 * den) :
                      \A j \in 1..(k - 1) : num[j] = num[k] => qc[1][j] = qc[2] } }

\* Lines 53-54: the residual, rounded to 0.001 kg, goes to line idx.
Diff(T, rounded) == RoundQ(T - 10 * SumSeq(rounded), 10)
Balance(rounded, idx, diff) == [rounded EXCEPT ![idx] = rounded[idx] + diff]

\* Line 62: pool = sum(rounded) or 1.0
Pool(rounded) == IF SumSeq(rounded) = 0 THEN 1 ELSE SumSeq(rounded)

\* Lines 63-67: every line but idx gives up its share of the deficit and is
\* clamped at zero; the first k elements.  Equal lines give up equal floats.
RECURSIVE Redistribute(_, _, _, _, _)
Redistribute(c, idx, deficit, pool, k) ==
  IF k = 0 THEN {<<>>}
  ELSE IF k = idx
  THEN { Append(p, c[k]) : p \in Redistribute(c, idx, deficit, pool, k - 1) }
  ELSE { Append(pt[1], Max(c[k] - pt[2], 0)) :
           pt \in { qt \in Redistribute(c, idx, deficit, pool, k - 1)
                             \X RoundQ(c[k] * deficit, pool) :
                      \A j \in 1..(k - 1) :
                        (j # idx /\ c[j] = c[k]) => qt[1][j] = Max(c[k] - qt[2], 0) } }

\* Lines 57-72: the negative-result guard.  b is the list after line 54.
\* The result holds the list before and after the final micro-balance.
Guard(b, idx, T) ==
  IF b[idx] >= 0
  THEN {[guard |-> FALSE, pre |-> b, final |-> b]}
  ELSE LET deficit == 0 - b[idx]
           c == [b EXCEPT ![idx] = 0]
       IN  UNION { { [guard |-> TRUE, pre |-> e,
                      final |-> Balance(e, FirstMax(e), fd)] : fd \in Diff(T, e) } :
                   e \in Redistribute(c, idx, deficit, Pool(c), Len(c)) }

\* The locals of one call that got past the early return and the conversion.
NoLocals ==
  [called |-> FALSE, mode |-> "none", raw |-> <<>>, den |-> 1, rounded |-> <<>>,
   idx |-> 0, guard |-> FALSE, pre |-> <<>>, final |-> <<>>]

\* Lines 34-72: every list of weights the call can compute.
Allocations(its, T) ==
  UNION { UNION { { [called |-> TRUE, mode |-> Mode(its), raw |-> RawNum(its, T),
                     den |-> RawDen(its), rounded |-> r, idx |-> FirstMax(r),
                     guard |-> g.guard, pre |-> g.pre, final |-> g.final] :
                       g \in Guard(Balance(r, FirstMax(r), d), FirstMax(r), T) } :
                  d \in Diff(T, r) } :
          r \in RoundAll(RawNum(its, T), RawDen(its), Len(its)) }

\* Variant of WriteBack: the share is added to a weight already present.
WriteBackAccumulating(its, w) ==
  [i \in 1..Len(its) |->
     [its[i] EXCEPT !.allocated_weight =
        Weight(w[i] + (IF its[i].allocated_weight.has
                       THEN its[i].allocated_weight.w ELSE 0))]]

\* Variant of WriteBack: the sanitised quantity is stored with the weight.
WriteBackSanitised(its, w) ==
  [i \in 1..Len(its) |->
     [its[i] EXCEPT !.allocated_weight = Weight(w[i]),
                    !.quantity = Num(Qty(its[i]))]]

\* Lines 75-76: item["allocated_weight"] = float(w)
WriteBack(its, w) ==
  [i \in 1..Len(its) |-> [its[i] EXCEPT !.allocated_weight = Weight(w[i])]]

\* Variant of EarlyReturn: a zero total is allocated.
EarlyReturnNegativeOnly(its, T) == its = <<>> \/ T < 0

\* Lines 17-18: if not items or total_weight <= 0: return items
EarlyReturn(its, T) == its = <<>> \/ T <= 0

\* allocate_weights(items, total_weight): the outcomes of one call, each with
\* the item list as the call leaves it.
allocate_weights(its, T) ==
  IF EarlyReturn(its, T)
  THEN {[raised |-> FALSE, items |-> its, loc |-> NoLocals]}
  ELSE IF SanitiseRaises(its)
  THEN {[raised |-> TRUE, items |-> its, loc |-> NoLocals]}
  ELSE {[raised |-> FALSE, items |-> WriteBack(its, a.final), loc |-> a] :
          a \in Allocations(its, T)}

\* ------------------------------------------------- app.apply_weight_logic
GrossWeight(it) == ToFloat(it.gross_weight_kg)

\* Line 217: all(...) converts the gross weights in order and stops at the
\* first one that is not positive; a non-numeric string met before that
\* raises ValueError.
LineWeightsRaise(its) ==
  \E i \in 1..Len(its) :
    /\ ToFloatRaises(its[i].gross_weight_kg)
    /\ \A j \in 1..(i - 1) : GrossWeight(its[j]) > 0

\* Line 217: every item has a positive gross_weight_kg.
HaveLineWeights(its) == \A i \in 1..Len(its) : GrossWeight(its[i]) > 0

\* Lines 219-224: the per-line weights, each rounded, and their rounded sum.
DirectWeights(its) ==
  { [raised |-> FALSE,
     items |-> [i \in 1..Len(its) |->
                  [its[i] EXCEPT !.allocated_weight = Weight(Round3(GrossWeight(its[i])))]],
     total |-> t, direct |-> TRUE, loc |-> NoLocals] :
       t \in RoundQ(SumSeq([i \in 1..Len(its) |-> GrossWeight(its[i])]), 10) }

\* Lines 230-232: nothing is allocated, every line is annotated with 0.0.
ZeroWeights(its) ==
  [i \in 1..Len(its) |-> [its[i] EXCEPT !.allocated_weight = Weight(0)]]

\* Line 235: round(sum(float(i.get("allocated_weight", 0) or 0) ...), 3)
TotalAllocated(its) ==
  SumSeq([i \in 1..Len(its) |->
            IF its[i].allocated_weight.has THEN its[i].allocated_weight.w ELSE 0])

\* Variant of apply_weight_logic: the declared weight is tested before the
\* per-line weights.
apply_weight_logic_declared_first(its, declared) ==
  IF its = <<>>
  THEN {[raised |-> FALSE, items |-> its, total |-> 0, direct |-> FALSE, loc |-> NoLocals]}
  ELSE IF declared <= 0
  THEN {[raised |-> FALSE, items |-> ZeroWeights(its), total |-> 0, direct |-> FALSE,
         loc |-> NoLocals]}
  ELSE IF LineWeightsRaise(its)
  THEN {[raised |-> TRUE, items |-> its, total |-> 0, direct |-> FALSE, loc |-> NoLocals]}
  ELSE IF HaveLineWeights(its)
  THEN DirectWeights(its)
  ELSE { [raised |-> r.raised, items |-> r.items,
          total |-> IF r.raised THEN 0 ELSE TotalAllocated(r.items),
          direct |-> FALSE, loc |-> r.loc] :
           r \in allocate_weights(its, declared) }

\* apply_weight_logic(items, declared_weight_kg): the outcomes of one call.
apply_weight_logic(its, declared) ==
  IF its = <<>>
  THEN {[raised |-> FALSE, items |-> its, total |-> 0, direct |-> FALSE, loc |-> NoLocals]}
  ELSE IF LineWeightsRaise(its)
  THEN {[raised |-> TRUE, items |-> its, total |-> 0, direct |-> FALSE, loc |-> NoLocals]}
  ELSE IF HaveLineWeights(its)
  THEN DirectWeights(its)
  ELSE IF declared <= 0
  THEN {[raised |-> FALSE, items |-> ZeroWeights(its), total |-> 0, direct |-> FALSE,
         loc |-> NoLocals]}
  ELSE { [raised |-> r.raised, items |-> r.items,
          total |-> IF r.raised THEN 0 ELSE TotalAllocated(r.items),
          direct |-> FALSE, loc |-> r.loc] :
           r \in allocate_weights(its, declared) }

\* ------------------------------------------------ app.build_payload_strict
\* Lines 92-109: any non-numeric quantity, unit_price or gross_weight_kg of
\* the strict payload raises ValueError.
NormalizeRaises(its) ==
  \E i \in 1..Len(its) :
    \/ ToFloatRaises(its[i].quantity)
    \/ ToFloatRaises(its[i].unit_price)
    \/ ToFloatRaises(its[i].gross_weight_kg)

\* Lines 89-111: one ED01 item per payload item, in order, fields as floats;
\* line 98 copies the payload item's part_id.
normalize_items_from_strict_payload(its) ==
  [i \in 1..Len(its) |->
     [part_id |-> its[i].part_id,
      quantity |-> Num(ToFloat(its[i].quantity)),
      unit_price |-> Num(ToFloat(its[i].unit_price)),
      gross_weight_kg |-> Num(ToFloat(its[i].gross_weight_kg)),
      allocated_weight |-> NoWeight]]

\* parts_catalog.DEMO_PARTS: the default_quantity of P001..P010.
DemoQuantities == <<2, 1, 1, 4, 2, 1, 3, 1, 1, 1>>
DemoUnitPrice == 100
DemoDeclaredWeight == 5000000
\* The part_id of the k-th catalogue part (P001..P010), apart from the
\* part ids of invoice lines.
DemoPartId(k) == 100 + k
IsDemoPart(it) == it.part_id > 100

\* Lines 306-322: the catalogue parts whose id is selected, in catalogue
\* order; the first k parts of the catalogue.
RECURSIVE DemoItems(_, _)
DemoItems(selected, k) ==
  IF k = 0 THEN <<>>
  ELSE IF k \in selected
  THEN Append(DemoItems(selected, k - 1),
              [part_id |-> DemoPartId(k),
               quantity |-> Num(DemoQuantities[k]), unit_price |-> Num(DemoUnitPrice),
               gross_weight_kg |-> Num(0), allocated_weight |-> NoWeight])
  ELSE DemoItems(selected, k - 1)

NoPayload ==
  [built |-> FALSE, mode |-> "none", declared_weight_kg |-> 0,
   total_allocated_weight_kg |-> 0]

\* Line 293, `if strict_payload:`: None and the empty dict are both falsy.
Truthy(sp) == sp = "dict"

\* Lines 329-363: the payload, from the declared weight and an outcome of
\* apply_weight_logic.
Payload(strict, declared, r) ==
  [built |-> TRUE,
   mode |-> IF strict THEN "STRICT_INVOICE" ELSE "DEMO_FALLBACK",
   declared_weight_kg |-> Round3(declared),
   total_allocated_weight_kg |-> r.total]

\* ------------------------------------------------ server.allocate_weights
\* server.py reads the line weight under the key gross_weight and writes the
\* share under the key allocated_weight_kg; the item records hold them in
\* the fields gross_weight_kg and allocated_weight.
\* Lines 19, 25, 26, 60, 61: float(i.get(name, 0)): a missing key reads 0,
\* None raises TypeError, "" and "abc" raise ValueError.
ServerFloatRaises(f) == f.k \in {"null", "empty", "text"}
ServerFloat(f) == IF f.k = "num" THEN f.v ELSE 0

ServerRaises(its) ==
  \E i \in 1..Len(its) :
    ServerFloatRaises(its[i].quantity) \/ ServerFloatRaises(its[i].unit_price)

\* Lines 18-22: the values, not sanitised.
ServerQuantities(its) == [i \in 1..Len(its) |-> ServerFloat(its[i].quantity)]
ServerValues(its) ==
  [i \in 1..Len(its) |-> ServerFloat(its[i].quantity) * ServerFloat(its[i].unit_price)]

\* Line 25: sum(...) or 1
ServerQtySum(its) ==
  IF SumSeq(ServerQuantities(its)) = 0 THEN 1 ELSE SumSeq(ServerQuantities(its))

\* Lines 24-28: raw weight i is ServerRawNum[i] / ServerRawDen, in 0.0001 kg.
ServerRawNum(its, T) ==
  IF SumSeq(ServerValues(its)) <= 0
  THEN [i \in 1..Len(its) |-> ServerQuantities(its)[i] * T]
  ELSE [i \in 1..Len(its) |-> ServerValues(its)[i] * T]
ServerRawDen(its) ==
  IF SumSeq(ServerValues(its)) <= 0 THEN ServerQtySum(its)
  ELSE SumSeq(ServerValues(its))

\* Line 30: the raw weights rounded to 0.001 kg; a negative quantity sum
\* changes the sign of every share.
ServerRounded(its, T) ==
  IF ServerRawDen(its) > 0
  THEN RoundAll(ServerRawNum(its, T), ServerRawDen(its), Len(its))
  ELSE RoundAll([i \in 1..Len(its) |-> 0 - ServerRawNum(its, T)[i]],
                0 - ServerRawDen(its), Len(its))

\* Lines 31-32: the residual goes to the last line.
ServerBalance(rounded, diff) ==
  [rounded EXCEPT ![Len(rounded)] = rounded[Len(rounded)] + diff]

\* Lines 34-35: item["allocated_weight_kg"] = max(round(w, 3), 0.0)
ServerWriteBack(its, w) ==
  [i \in 1..Len(its) |-> [its[i] EXCEPT !.allocated_weight = Weight(Max(w[i], 0))]]

\* server.allocate_weights(items, total_weight): the outcomes of one call.
server_allocate_weights(its, T) ==
  IF its = <<>> \/ T <= 0
  THEN {[raised |-> FALSE, items |-> its]}
  ELSE IF ServerRaises(its)
  THEN {[raised |-> TRUE, items |-> its]}
  ELSE UNION { { [raised |-> FALSE,
                  items |-> ServerWriteBack(its, ServerBalance(r, d))] :
                   d \in Diff(T, r) } :
               r \in ServerRounded(its, T) }

\* ----------------------------------------------------- server.generate_ed01
\* Line 55: float(i.get("gross_weight", 0) or 0) raises on a non-numeric
\* string; the sum of the line weights is the total weight.
Ed01WeightRaises(its) == \E i \in 1..Len(its) : ToFloatRaises(its[i].gross_weight_kg)
Ed01TotalWeight(its) == SumSeq([i \in 1..Len(its) |-> GrossWeight(its[i])])

\* Lines 58-73: the normalised items carry the quantity and the unit price
\* as floats and no line weight.
Ed01Normalized(its) ==
  [i \in 1..Len(its) |->
     [part_id |-> its[i].part_id,
      quantity |-> Num(ServerFloat(its[i].quantity)),
      unit_price |-> Num(ServerFloat(its[i].unit_price)),
      gross_weight_kg |-> Missing,
      allocated_weight |-> NoWeight]]

NoEd01 == [built |-> FALSE, declared_gross_weight_kg |-> 0, allocated_total_weight_kg |-> 0]

\* generate_ed01(payload): the outcomes of one call.  Line 110 reads
\* i["allocated_weight_kg"] of every item: KeyError when allocate_weights
\* returned early from a list that is not empty.
generate_ed01(its) ==
  IF Ed01WeightRaises(its) \/ ServerRaises(its)
  THEN {[raised |-> TRUE, items |-> its, ed01 |-> NoEd01]}
  ELSE { IF \E i \in 1..Len(r.items) : ~r.items[i].allocated_weight.has
         THEN [raised |-> TRUE, items |-> r.items, ed01 |-> NoEd01]
         ELSE [raised |-> FALSE, items |-> r.items,
               ed01 |-> [built |-> TRUE,
                         declared_gross_weight_kg |-> Ed01TotalWeight(its),
                         allocated_total_weight_kg |->
                           SumSeq([i \in 1..Len(r.items) |->
                                     r.items[i].allocated_weight.w])]] :
           r \in server_allocate_weights(Ed01Normalized(its), Ed01TotalWeight(its)) }

\* ------------------------------------------------------------ the inputs
\* Item lists of at most n items drawn from a set of items.
ListsUpTo(S, n) == UNION { [1..k -> S] : k \in 0..n }

Item(q, p, g) ==
  [part_id |-> 0, quantity |-> q, unit_price |-> p, gross_weight_kg |-> g,
   allocated_weight |-> NoWeight]

\* The identity of an invoice line: the part_id of line i is i.
WithLineIds(its) == [i \in 1..Len(its) |-> [its[i] EXCEPT !.part_id = i]]

\* Numeric items without per-line weights: an item of no quantity and no
\* price, and the items of some quantity.
GeneralItems ==
  {Item(Num(0), Num(0), Num(0))}
    \cup { Item(Num(q), Num(p), Num(0)) : q \in 1..MaxQty, p \in {0, 1, 100} }

\* Items whose quantity or unit price is negative, missing, None, "" or "abc".
MalformedFields == {Num(-1), Num(1), Missing, Null, Empty, Text}
MalformedPrices == {Num(-1), Num(1), Missing, Text}
MalformedItems ==
  { Item(q, p, Num(0)) : q \in MalformedFields, p \in MalformedPrices }

\* Items with a per-line gross weight: none, 0.0007 kg, 79.5 kg, 120.5 kg,
\* negative, None or "abc".
LineWeights == {Num(-1), Num(0), Num(7), Num(795000), Num(1205000), Null, Text}
WeighedItems ==
  { Item(q, Num(1), g) : q \in {Num(0), Num(2), Text}, g \in LineWeights }

\* Many lines of equal or zero value.
LineItems == { Item(Num(q), Num(1), Num(0)) : q \in {0, 1} }

\* Total weights in 0.0001 kg: 0.001 kg, 0.002 kg, 0.0625 kg, 30 kg, 40 kg,
\* 100 kg, 300 kg.  0.0625 = 1/16 is the only one half-way between two
\* multiples of 0.001 kg, and it is a binary fraction: a float holds it
\* exactly.  The totals 0 and -5 kg come with the malformed and the weighed
\* items.
TotalWeights == {10, 20, 625, 300000, 400000, 1000000, 3000000}
\* Weights of a few grams or less: 0.0008 kg, 0.003 kg, 0.0033 kg, 0.004 kg.
SmallWeights == {8, 30, 33, 40}

Inputs ==
  (ListsUpTo(GeneralItems, MaxItems) \X TotalWeights)
    \cup (ListsUpTo(MalformedItems, MaxMalformed) \X {0, 400000})
    \cup (ListsUpTo(WeighedItems, MaxWeighed) \X {-50000, 0, 10, 2000000})
    \cup (ListsUpTo(LineItems, MaxLines) \X SmallWeights)

\* The selected demo labels, as the set of catalogue positions they name;
\* 0 is a label that names no part of the catalogue.
Selections == { s \in SUBSET (0..Len(DemoQuantities)) : Cardinality(s) <= MaxSelected }
\* The labels selected next to an invoice that holds a strict payload: the
\* first parts of the catalogue.
StrictSelections == {1..MaxSelected}

\* -------------------------------------------------------------- the state
VARIABLES
  items,              \* the item list, annotated in place
  total_weight,       \* the total / declared weight argument, in 0.0001 kg
  strict_payload,     \* what parse_strict_invoice_payload finds in the invoice:
                      \* "None", "empty" (the dict {}) or "dict" (a dict
                      \* with keys: its items and its declared weight)
  selected_demo_labels, \* the demo labels passed to build_payload_strict
  first_items,        \* the list returned by the first of two calls
  ed01,               \* the weights block of the document of generate_ed01
  arg_items,          \* the item list as it was passed in
  op,                 \* the operation that has run
  raised,             \* the operation raised an exception
  loc,                \* the locals of the allocate_weights call, if any
  have_line_weights,  \* apply_weight_logic used the per-line weights
  ret_total,          \* the total apply_weight_logic returned, in 0.001 kg
  payload,            \* the payload build_payload_strict returned
  weight_diff         \* the widget's difference, in 0.001 kg

vars ==
  <<items, total_weight, strict_payload, selected_demo_labels, first_items,
    ed01, arg_items, op, raised, loc, have_line_weights, ret_total, payload, weight_diff>>

Init ==
  /\ \/ /\ strict_payload = "dict"
        /\ \E in \in Inputs : items = WithLineIds(in[1]) /\ total_weight = in[2]
     \/ /\ strict_payload \in {"None", "empty"}
        /\ items = <<>>
        /\ total_weight = 0
  /\ selected_demo_labels = {}
  /\ first_items = <<>>
  /\ ed01 = NoEd01
  /\ arg_items = items
  /\ op = "none"
  /\ raised = FALSE
  /\ loc = NoLocals
  /\ have_line_weights = FALSE
  /\ ret_total = 0
  /\ payload = NoPayload
  /\ weight_diff = 0

\* A direct call allocate_weights(items, total_weight).
CallAllocateWeights ==
  /\ op = "none"
  /\ \E r \in allocate_weights(items, total_weight) :
       /\ items' = r.items
       /\ raised' = r.raised
       /\ loc' = r.loc
  /\ op' = "allocate_weights"
  /\ UNCHANGED <<first_items, ed01>>
  /\ UNCHANGED <<total_weight, strict_payload, selected_demo_labels, arg_items,
                 have_line_weights, ret_total, payload, weight_diff>>

\* Lines 24-72 on the same floats give the same floats: two calls whose raw
\* shares are equal round, balance and redistribute alike (the choice at a
\* half-way value stands for a representation error fixed by the value).
SameArithmetic(l1, l2) ==
  (l1.called /\ l2.called /\ l1.raw = l2.raw /\ l1.den = l2.den) => l1 = l2

\* A second call allocate_weights(items, total_weight), on the list the first
\* call returned (the items carry the first call's allocated_weight).
CallAllocateWeightsAgain ==
  /\ op = "allocate_weights"
  /\ ~raised
  /\ \E r \in allocate_weights(items, total_weight) :
       /\ SameArithmetic(loc, r.loc)
       /\ items' = r.items
       /\ raised' = r.raised
       /\ loc' = r.loc
  /\ first_items' = items
  /\ op' = "allocate_weights_again"
  /\ UNCHANGED ed01
  /\ UNCHANGED <<total_weight, strict_payload, selected_demo_labels, arg_items,
                 have_line_weights, ret_total, payload, weight_diff>>

\* A direct call apply_weight_logic(items, total_weight).
CallApplyWeightLogic ==
  /\ op = "none"
  /\ \E r \in apply_weight_logic(items, total_weight) :
       /\ items' = r.items
       /\ raised' = r.raised
       /\ loc' = r.loc
       /\ have_line_weights' = r.direct
       /\ ret_total' = r.total
  /\ op' = "apply_weight_logic"
  /\ UNCHANGED <<first_items, ed01>>
  /\ UNCHANGED <<total_weight, strict_payload, selected_demo_labels, arg_items,
                 payload, weight_diff>>

\* build_payload_strict on an invoice with a strict payload (lines 293-300):
\* the payload's items, normalised, and its declared_weight_kg.
BuildStrict ==
  /\ op = "none"
  /\ Truthy(strict_payload)
  /\ selected_demo_labels' \in StrictSelections
  /\ IF NormalizeRaises(items)
     THEN /\ raised' = TRUE
          /\ UNCHANGED <<items, loc, have_line_weights, ret_total, payload>>
     ELSE \E r \in apply_weight_logic(normalize_items_from_strict_payload(items),
                                      total_weight) :
            /\ items' = r.items
            /\ raised' = r.raised
            /\ loc' = r.loc
            /\ have_line_weights' = r.direct
            /\ ret_total' = r.total
            /\ payload' = IF r.raised THEN NoPayload
                          ELSE Payload(TRUE, total_weight, r)
  /\ op' = "build_payload_strict"
  /\ UNCHANGED <<first_items, ed01>>
  /\ UNCHANGED <<total_weight, strict_payload, arg_items, weight_diff>>

\* build_payload_strict on an invoice without a strict payload (lines
\* 301-324): the selected demo parts and the demo weight, or nothing.
BuildDemo ==
  /\ op = "none"
  /\ ~Truthy(strict_payload)
  /\ \E selected \in Selections :
       LET declared == IF selected = {} THEN 0 ELSE DemoDeclaredWeight
       IN  \E r \in apply_weight_logic(DemoItems(selected, Len(DemoQuantities)), declared) :
             /\ items' = r.items
             /\ raised' = r.raised
             /\ loc' = r.loc
             /\ have_line_weights' = r.direct
             /\ ret_total' = r.total
             /\ total_weight' = declared
             /\ selected_demo_labels' = selected
             /\ payload' = IF r.raised THEN NoPayload
                           ELSE Payload(FALSE, declared, r)
  /\ op' = "build_payload_strict"
  /\ UNCHANGED <<first_items, ed01>>
  /\ UNCHANGED <<strict_payload, arg_items, weight_diff>>

\* thai_widget.render_declaration_widget lines 33-36, on a built payload.
RenderDeclarationWidget ==
  /\ op = "build_payload_strict"
  /\ ~raised
  /\ weight_diff' = payload.total_allocated_weight_kg - payload.declared_weight_kg
  /\ op' = "render_declaration_widget"
  /\ UNCHANGED <<first_items, ed01>>
  /\ UNCHANGED <<items, total_weight, strict_payload, selected_demo_labels,
                 arg_items, raised, loc, have_line_weights, ret_total, payload>>

\* A direct call server.allocate_weights(items, total_weight).
CallServerAllocateWeights ==
  /\ op = "none"
  /\ \E r \in server_allocate_weights(items, total_weight) :
       /\ items' = r.items
       /\ raised' = r.raised
  /\ op' = "server.allocate_weights"
  /\ UNCHANGED <<total_weight, strict_payload, selected_demo_labels, first_items,
                 ed01, arg_items, loc, have_line_weights, ret_total, payload,
                 weight_diff>>

\* generate_ed01 on a payload that holds the items; the total weight is the
\* sum of their line weights.
GenerateEd01 ==
  /\ op = "none"
  /\ \E r \in generate_ed01(items) :
       /\ items' = r.items
       /\ raised' = r.raised
       /\ ed01' = r.ed01
  /\ total_weight' = IF Ed01WeightRaises(items) THEN 0 ELSE Ed01TotalWeight(items)
  /\ op' = "generate_ed01"
  /\ UNCHANGED <<strict_payload, selected_demo_labels, first_items, arg_items, loc,
                 have_line_weights, ret_total, payload, weight_diff>>

Next ==
  \/ CallAllocateWeights
  \/ CallAllocateWeightsAgain
  \/ CallApplyWeightLogic
  \/ BuildStrict
  \/ BuildDemo
  \/ RenderDeclarationWidget
  \/ CallServerAllocateWeights
  \/ GenerateEd01

Spec == Init /\ [][Next]_vars

\* ================================================================ claims
\* What the statements below say about a call, written without the
\* definitions that model the code's computation.
Returned(name) == op = name /\ ~raised
NumItems == Len(arg_items)
Allocated == \A i \in 1..Len(items) : items[i].allocated_weight.has
AllocatedWeight(i) == items[i].allocated_weight.w
AllocatedWeights == [i \in 1..Len(items) |-> AllocatedWeight(i)]
ArgQuantity(i) ==
  IF arg_items[i].quantity.k = "num" /\ arg_items[i].quantity.v > 0
  THEN arg_items[i].quantity.v ELSE 0
ArgPrice(i) ==
  IF arg_items[i].unit_price.k = "num" /\ arg_items[i].unit_price.v > 0
  THEN arg_items[i].unit_price.v ELSE 0
ArgValue(i) == ArgQuantity(i) * ArgPrice(i)
ArgValueSum == SumSeq([i \in 1..NumItems |-> ArgValue(i)])
ArgQuantitySum == SumSeq([i \in 1..NumItems |-> ArgQuantity(i)])
\* allocate_weights returned from a call that allocates.
AllocationDone ==
  /\ Returned("allocate_weights")
  /\ NumItems > 0
  /\ total_weight > 0

\* C1: after allocate_weights returns for a non-empty item list and a
\* total_weight > 0, the allocated weights sum to total_weight rounded to 3
\* decimals.
C1_Conservation ==
  AllocationDone =>
    /\ Allocated
    /\ SumSeq(AllocatedWeights) = Round3(total_weight)

\* C2: every allocated_weight that allocate_weights writes is >= 0.
C2_NonNegative ==
  op = "allocate_weights" =>
    \A i \in 1..Len(items) :
      items[i].allocated_weight.has => AllocatedWeight(i) >= 0

\* C3: allocate_weights on an empty list or with total_weight <= 0 returns
\* the items as they were passed, without an allocated_weight, and does not
\* raise.
C3_DegenerateNoOp ==
  (op = "allocate_weights" /\ (NumItems = 0 \/ total_weight <= 0)) =>
    /\ ~raised
    /\ items = arg_items
    /\ \A i \in 1..Len(items) : ~items[i].allocated_weight.has

\* C3 witness: a call with total_weight <= 0 on items with a non-numeric
\* field has returned.
C3_Witness ==
  /\ op = "allocate_weights"
  /\ total_weight <= 0
  /\ NumItems = 2
  /\ arg_items[1].quantity = Text

\* C4: in value-proportional mode, when every raw share value_i / sum(value)
\* * total_weight is a multiple of 0.001, each allocated_weight is that share.
C4_ValueProportional ==
  (/\ AllocationDone
   /\ ArgValueSum > 0
   /\ \A i \in 1..NumItems : (ArgValue(i) * total_weight) % (10 * ArgValueSum) = 0) =>
    /\ Allocated
    /\ \A i \in 1..NumItems :
         AllocatedWeight(i) * 10 * ArgValueSum = ArgValue(i) * total_weight

\* C4 witness: quantities [2,1], unit prices [100,100], total 300 kg gave
\* [200.0, 100.0].
C4_Witness ==
  /\ AllocationDone
  /\ total_weight = 3000000
  /\ NumItems = 2
  /\ arg_items[1].quantity = Num(2) /\ arg_items[2].quantity = Num(1)
  /\ arg_items[1].unit_price = Num(100) /\ arg_items[2].unit_price = Num(100)
  /\ AllocatedWeights = <<200000, 100000>>

\* C5: when every value is zero and the quantity sum is > 0, the raw share of
\* item i is quantity_i / sum(quantity) * total_weight, and a share that is a
\* multiple of 0.001 is the allocated weight.
C5_QuantityFallback ==
  (/\ AllocationDone
   /\ ArgValueSum = 0
   /\ ArgQuantitySum > 0) =>
    /\ loc.called
    /\ \A i \in 1..NumItems :
         loc.raw[i] * ArgQuantitySum = ArgQuantity(i) * total_weight * loc.den
    /\ (\A i \in 1..NumItems :
          (ArgQuantity(i) * total_weight) % (10 * ArgQuantitySum) = 0) =>
       (\A i \in 1..NumItems :
          AllocatedWeight(i) * 10 * ArgQuantitySum = ArgQuantity(i) * total_weight)

\* C5 witness: unit prices zero, quantities [3,1], total 40 kg gave
\* [30.0, 10.0].
C5_Witness ==
  /\ AllocationDone
  /\ total_weight = 400000
  /\ NumItems = 2
  /\ arg_items[1].quantity = Num(3) /\ arg_items[2].quantity = Num(1)
  /\ arg_items[1].unit_price = Num(0) /\ arg_items[2].unit_price = Num(0)
  /\ AllocatedWeights = <<30000, 10000>>

\* The first line, in input order, that holds the largest rounded share.
FirstLargest(rounded) ==
  CHOOSE b \in 1..Len(rounded) :
    /\ \A j \in 1..Len(rounded) : rounded[j] <= rounded[b]
    /\ \A j \in 1..Len(rounded) : rounded[j] = rounded[b] => b <= j

\* C6 (as stated): when the value sum and the quantity sum are both zero,
\* every raw share is total_weight / item_count and every line except one
\* balancing line gets round(total_weight / N, 3).
C6_EqualSplitOriginal ==
  (/\ AllocationDone
   /\ ArgValueSum = 0
   /\ ArgQuantitySum = 0) =>
    /\ loc.called
    /\ \A i \in 1..NumItems : loc.raw[i] * NumItems = total_weight * loc.den
    /\ \E b \in 1..NumItems :
         \A i \in 1..NumItems :
           i # b => AllocatedWeight(i) \in RoundQ(total_weight, 10 * NumItems)

\* C6 (amended): when the value sum and the quantity sum are both zero,
\* every raw share is total_weight / item_count, and whenever the
\* negative-result guard does not fire every line except one balancing line
\* gets round(total_weight / N, 3).
C6_EqualSplit ==
  (/\ AllocationDone
   /\ ArgValueSum = 0
   /\ ArgQuantitySum = 0) =>
    /\ loc.called
    /\ \A i \in 1..NumItems : loc.raw[i] * NumItems = total_weight * loc.den
    /\ ~loc.guard =>
         \E b \in 1..NumItems :
           \A i \in 1..NumItems :
             i # b => AllocatedWeight(i) \in RoundQ(total_weight, 10 * NumItems)

\* C6 witness: 3 items with zero quantity and price, total 30 kg, each
\* got 10.0.
C6_Witness ==
  /\ AllocationDone
  /\ total_weight = 300000
  /\ NumItems = 3
  /\ \A i \in 1..3 : arg_items[i].quantity = Num(0) /\ arg_items[i].unit_price = Num(0)
  /\ ~loc.guard
  /\ AllocatedWeights = <<10000, 10000, 10000>>

\* C7: apply_weight_logic on items that all carry a positive per-line gross
\* weight annotates each item with that weight rounded to 3 decimals,
\* whatever the quantities, prices and declared weight, and performs no
\* proportional allocation.
C7_DirectWeightPrecedence ==
  (/\ op = "apply_weight_logic"
   /\ NumItems > 0
   /\ \A i \in 1..NumItems :
        arg_items[i].gross_weight_kg.k = "num" /\ arg_items[i].gross_weight_kg.v > 0) =>
    /\ ~raised
    /\ have_line_weights
    /\ ~loc.called
    /\ Len(items) = NumItems
    /\ \A i \in 1..NumItems :
         /\ items[i].allocated_weight.has
         /\ AllocatedWeight(i) = Round3(arg_items[i].gross_weight_kg.v)

\* C7 witness: line weights [120.5, 79.5] with a declared weight <= 0 and a
\* non-numeric quantity gave [120.5, 79.5].
C7_Witness ==
  /\ op = "apply_weight_logic"
  /\ total_weight <= 0
  /\ NumItems = 2
  /\ arg_items[1].gross_weight_kg = Num(1205000)
  /\ arg_items[2].gross_weight_kg = Num(795000)
  /\ arg_items[1].quantity = Text
  /\ Allocated
  /\ AllocatedWeights = <<120500, 79500>>
  /\ ret_total = 200000

\* C8 (as stated): in every allocation, every line except the first line
\* holding the largest rounded share keeps its rounded raw share.
C8_SingleLineResidualOriginal ==
  AllocationDone =>
    /\ loc.called
    /\ Allocated
    /\ \A i \in 1..NumItems :
         i # FirstLargest(loc.rounded) => AllocatedWeight(i) = loc.rounded[i]

\* C8 (amended): in every allocation in which the negative-result guard does
\* not fire, every line except the first line holding the largest rounded
\* share keeps its rounded raw share, and that line absorbs the residual.
C8_SingleLineResidual ==
  (AllocationDone /\ ~loc.guard) =>
    /\ loc.called
    /\ Allocated
    /\ \A i \in 1..NumItems :
         i # FirstLargest(loc.rounded) => AllocatedWeight(i) = loc.rounded[i]

\* C8 witness: three lines of equal value and 100 kg gave 33.334, 33.333,
\* 33.333.
C8_Witness ==
  /\ AllocationDone
  /\ ~loc.guard
  /\ total_weight = 1000000
  /\ loc.rounded = <<33333, 33333, 33333>>
  /\ AllocatedWeights = <<33334, 33333, 33333>>

\* C9: allocate_weights never raises.
C9_NeverRaises == op = "allocate_weights" => ~raised

\* C10: in every payload built without per-line gross weights the allocated
\* total equals the declared weight, and the widget's difference is 0.
C10_ZeroDifference ==
  /\ (op = "build_payload_strict" /\ payload.built /\ ~have_line_weights) =>
       payload.total_allocated_weight_kg = payload.declared_weight_kg
  /\ (op = "render_declaration_widget" /\ ~have_line_weights) => weight_diff = 0

\* C11: whenever a strict invoice payload is parsed, the ED01 payload has
\* exactly one item per payload item, in the same order, and no demo part;
\* demo parts appear only when no strict payload was found.
C11_NoInventedGoods ==
  (op \in {"build_payload_strict", "render_declaration_widget"} /\ payload.built) =>
    /\ strict_payload # "None" =>
         /\ Len(items) = Len(arg_items)
         /\ \A i \in 1..Len(items) :
              /\ items[i].part_id = arg_items[i].part_id
              /\ ~IsDemoPart(items[i])
    /\ (\E i \in 1..Len(items) : IsDemoPart(items[i])) => strict_payload = "None"

\* The list with nothing but each item's quantity and unit price.
QuantityAndPrice(its) ==
  [i \in 1..Len(its) |->
     [part_id |-> 0, quantity |-> its[i].quantity, unit_price |-> its[i].unit_price,
      gross_weight_kg |-> [k |-> "missing", v |-> 0],
      allocated_weight |-> [has |-> FALSE, w |-> 0]]]

C13_Frame ==
  op = "allocate_weights" =>
    /\ Len(items) = Len(arg_items)
    /\ \A i \in 1..Len(items) :
         /\ items[i].part_id = arg_items[i].part_id
         /\ items[i].quantity = arg_items[i].quantity
         /\ items[i].unit_price = arg_items[i].unit_price
         /\ items[i].gross_weight_kg = arg_items[i].gross_weight_kg

\* C13 witness: two lines were allocated, the first of negative quantity
\* and without a unit price; both still hold what they held.
C13_Witness ==
  /\ Returned("allocate_weights")
  /\ Allocated
  /\ Len(arg_items) = 2
  /\ arg_items[1].quantity = [k |-> "num", v |-> -1]
  /\ arg_items[1].unit_price.k = "missing"
  /\ items[1].quantity = [k |-> "num", v |-> -1]
  /\ items[1].unit_price.k = "missing"
  /\ items[2].part_id = 2

\* C14: whenever the negative-result guard fires, after the clamp and the
\* redistribution and before the final micro-balance every line is
\* non-negative and the lines sum to at most the total weight, so the final
\* residual put on the largest line is never negative.
C14_SecondPassPrecondition ==
  (AllocationDone /\ loc.guard) =>
    /\ \A i \in 1..Len(loc.pre) : loc.pre[i] >= 0
    /\ SumSeq(loc.pre) * 10 <= total_weight
    /\ SumSeq(loc.final) - SumSeq(loc.pre) >= 0

ArgLineWeightPositive(i) ==
  arg_items[i].gross_weight_kg.k = "num" /\ arg_items[i].gross_weight_kg.v > 0

\* C16: apply_weight_logic on a non-empty list in which not every item has
\* a positive line weight, with a declared weight <= 0, annotates every item
\* with allocated_weight 0.0 and returns the total 0.0 without raising; on
\* an empty list it returns the list and 0.0.
C16_NonPositiveDeclared ==
  op = "apply_weight_logic" =>
    /\ (/\ NumItems > 0
        /\ \E i \in 1..NumItems : ~ArgLineWeightPositive(i)
        /\ total_weight <= 0) =>
         /\ ~raised
         /\ \A i \in 1..Len(items) : items[i].allocated_weight = [has |-> TRUE, w |-> 0]
         /\ ret_total = 0
    /\ NumItems = 0 => (~raised /\ items = <<>> /\ ret_total = 0)

ArgNegative(f) == f.k = "num" /\ f.v < 0

\* C15: the value of an item is max(quantity, 0) * max(unit_price, 0): the
\* branch is chosen by the sums of the clamped values and quantities, the raw
\* share in value mode is the clamped value's share, and an item with a
\* negative quantity or unit price has the raw share 0 in value mode, an
\* item with a negative quantity also in quantity mode.
C15_NegativeSanitisation ==
  AllocationDone =>
    /\ loc.mode = IF ArgValueSum > 0 THEN "value"
                  ELSE IF ArgQuantitySum > 0 THEN "quantity" ELSE "equal"
    /\ loc.mode = "value" =>
         /\ loc.den = ArgValueSum
         /\ \A i \in 1..NumItems : loc.raw[i] = ArgValue(i) * total_weight
    /\ \A i \in 1..NumItems :
         /\ (loc.mode = "value" /\ (ArgNegative(arg_items[i].quantity)
                                      \/ ArgNegative(arg_items[i].unit_price)))
              => loc.raw[i] = 0
         /\ (loc.mode = "quantity" /\ ArgNegative(arg_items[i].quantity))
              => loc.raw[i] = 0

\* C15 witness: quantities [-1, 1], unit prices [-1, 1], total 40 kg: the
\* two negatives are worth nothing and the second line got all 40.0.
C15_Witness ==
  /\ AllocationDone
  /\ total_weight = 400000
  /\ NumItems = 2
  /\ arg_items[1].quantity = [k |-> "num", v |-> -1]
  /\ arg_items[1].unit_price = [k |-> "num", v |-> -1]
  /\ arg_items[2].quantity = [k |-> "num", v |-> 1]
  /\ arg_items[2].unit_price = [k |-> "num", v |-> 1]
  /\ loc.mode = "value"
  /\ AllocatedWeights = <<0, 40000>>

\* C17: in every mode of apply_weight_logic the total it returns is the sum
\* of the allocated_weight values it wrote on the items, at 3 decimals.
C17_TotalMatchesAnnotations ==
  (Returned("apply_weight_logic") /\ Allocated) =>
    ret_total = SumSeq(AllocatedWeights)

\* C18: in value-proportional mode an item whose value is zero is given the
\* allocated weight 0, for every total weight > 0.
C18_ZeroValueZeroWeight ==
  (AllocationDone /\ ArgValueSum > 0) =>
    \A i \in 1..NumItems : ArgValue(i) = 0 => AllocatedWeight(i) = 0

\* C19 (as stated): in value-proportional mode value_i > value_j implies
\* allocated_weight_i >= allocated_weight_j.
C19_MonotonicityOriginal ==
  (AllocationDone /\ ArgValueSum > 0) =>
    \A i, j \in 1..NumItems :
      ArgValue(i) > ArgValue(j) => AllocatedWeight(i) >= AllocatedWeight(j)

\* C19 (amended): in value-proportional mode, when the negative-result guard
\* does not fire, value_i > value_j implies allocated_weight_i >=
\* allocated_weight_j for any two items other than the balancing line.
C19_Monotonicity ==
  (AllocationDone /\ ArgValueSum > 0 /\ ~loc.guard) =>
    \A i, j \in 1..NumItems \ {FirstLargest(loc.rounded)} :
      ArgValue(i) > ArgValue(j) => AllocatedWeight(i) >= AllocatedWeight(j)

\* C19 witness: values [300, 2, 1] and total 30 kg: the first line balances,
\* the second line is worth more than the third and got more, 0.198 against
\* 0.099.
C19_Witness ==
  /\ AllocationDone
  /\ ~loc.guard
  /\ total_weight = 300000
  /\ NumItems = 3
  /\ ArgValue(1) = 300 /\ ArgValue(2) = 2 /\ ArgValue(3) = 1
  /\ FirstLargest(loc.rounded) = 1
  /\ AllocatedWeight(2) = 198 /\ AllocatedWeight(3) = 99

\* C20: for every non-empty list and total weight > 0 the allocated_weight_kg
\* values written by server.allocate_weights sum to the total weight rounded
\* to 3 decimals, so generate_ed01 reports allocated_total_weight_kg equal to
\* declared_gross_weight_kg.
C20_ServerConservation ==
  /\ (Returned("server.allocate_weights") /\ NumItems > 0 /\ total_weight > 0) =>
       /\ Allocated
       /\ SumSeq(AllocatedWeights) \in RoundQ(total_weight, 10)
  /\ (Returned("generate_ed01") /\ NumItems > 0 /\ total_weight > 0) =>
       /\ ed01.built
       /\ ed01.allocated_total_weight_kg * 10 = ed01.declared_gross_weight_kg

ArgNumeric(f) == f.k = "num"

\* C21: generate_ed01 is total on numeric payloads: when every item has a
\* numeric quantity and unit price, also when the list is not empty and the
\* line weights sum to zero or are all missing, it returns a document with
\* an allocated total and does not fail on a missing per-item weight.
C21_TotalOnNumericPayloads ==
  (/\ op = "generate_ed01"
   /\ \A i \in 1..NumItems :
        ArgNumeric(arg_items[i].quantity) /\ ArgNumeric(arg_items[i].unit_price)) =>
    /\ ~raised
    /\ ed01.built

====
